---- MODULE Spec2Model ----
(***************************************************************************)
(* Two interacting galaxies: the initial-condition generator               *)
(* (allPositionsAndVelocities, galaxyStarsPositionsAndVelocities), the     *)
(* frame loop (onNextFrame, restart, drawScene) and the button handlers.   *)
(*                                                                         *)
(* JavaScript numbers are modelled as exact rationals extended with the    *)
(* IEEE special values NaN, +Infinity and -Infinity.  Math.sqrt, Math.cos  *)
(* and Math.sin return rational approximations (SqrtScale, SinTable).       *)
(* Angles are carried in degrees, so Math.PI is the number 180.            *)
(***************************************************************************)
EXTENDS Integers, Sequences, FiniteSets, TLC

\* ------------------------------------------------------------------------
\* Bounds of the model
\* ------------------------------------------------------------------------

\* largest number of rings of one galaxy that the generator is called with
MaxRings == 2

\* number of animation frames that are explored
MaxFrames == 3

\* precision of the model of Math.sqrt: results are multiples of 1/SqrtScale
SqrtScale == 10

\* precision of the numbers stored by the integrator: multiples of 1/GridScale
GridScale == 10

\* largest ring number and ring count the star counts are asked for
MaxRingNumber == 10

\* largest number of rotations a drag adds to the world matrix
MaxRotations == 4

\* ------------------------------------------------------------------------
\* JavaScript numbers
\* ------------------------------------------------------------------------

Abs(x) == IF x < 0 THEN -x ELSE x

RECURSIVE GCD(_, _)
GCD(x, y) == IF y = 0 THEN x ELSE GCD(y, x % y)

\* the number n/d (d # 0) in lowest terms with a positive denominator
Fin(n, d) ==
  LET g == GCD(Abs(n), Abs(d))
      s == IF d < 0 THEN -1 ELSE 1
  IN  [k |-> "fin", n |-> (s * n) \div g, d |-> (s * d) \div g]

\* the largest integer not above scale * n / d  (d > 0)
ScaledFloor(n, d, scale) == (n \div d) * scale + ((n % d) * scale) \div d

Num(i) == [k |-> "fin", n |-> i, d |-> 1]
NaN  == [k |-> "nan",  n |-> 0, d |-> 1]
PInf == [k |-> "pinf", n |-> 0, d |-> 1]
NInf == [k |-> "ninf", n |-> 0, d |-> 1]

IsFinite(a) == a.k = "fin"

\* -1, 0 or 1
Sign(a) ==
  CASE a.k = "pinf" -> 1
    [] a.k = "ninf" -> -1
    [] a.k = "nan"  -> 0
    [] OTHER        -> IF a.n > 0 THEN 1 ELSE IF a.n < 0 THEN -1 ELSE 0

Inf(s) == IF s < 0 THEN NInf ELSE PInf

\* unary minus
Neg(a) ==
  CASE a.k = "nan"  -> NaN
    [] a.k = "pinf" -> NInf
    [] a.k = "ninf" -> PInf
    [] OTHER        -> [k |-> "fin", n |-> -a.n, d |-> a.d]

\* a + b
Add(a, b) ==
  CASE a.k = "nan" \/ b.k = "nan" -> NaN
    [] a.k = "fin" /\ b.k = "fin" ->
         LET g == GCD(a.d, b.d)
         IN  Fin(a.n * (b.d \div g) + b.n * (a.d \div g), (a.d \div g) * b.d)
    [] a.k = "fin" -> b
    [] b.k = "fin" -> a
    [] OTHER       -> IF a.k = b.k THEN a ELSE NaN

\* a - b
Sub(a, b) == Add(a, Neg(b))

\* a * b
Mul(a, b) ==
  CASE a.k = "nan" \/ b.k = "nan" -> NaN
    [] a.k = "fin" /\ b.k = "fin" ->
         LET g1 == GCD(Abs(a.n), b.d)
             g2 == GCD(Abs(b.n), a.d)
         IN  Fin((a.n \div g1) * (b.n \div g2), (a.d \div g2) * (b.d \div g1))
    [] OTHER -> IF Sign(a) = 0 \/ Sign(b) = 0 THEN NaN
                ELSE Inf(Sign(a) * Sign(b))

\* a / b ; a division by zero gives an infinity, 0/0 gives NaN
Div(a, b) ==
  CASE a.k = "nan" \/ b.k = "nan" -> NaN
    [] a.k = "fin" /\ b.k = "fin" ->
         IF b.n = 0
           THEN (IF a.n = 0 THEN NaN ELSE Inf(Sign(a)))
           ELSE Mul(a, Fin(b.d, b.n))
    [] a.k = "fin" -> Num(0)
    [] b.k = "fin" -> Inf(Sign(a) * (IF Sign(b) < 0 THEN -1 ELSE 1))
    [] OTHER       -> NaN

\* a < b for finite numbers
Less(a, b) == a.n * b.d < b.n * a.d

\* largest r with r * r <= m, searched in lo..hi
RECURSIVE ISqrtIn(_, _, _)
ISqrtIn(m, lo, hi) ==
  IF lo >= hi THEN lo
  ELSE LET mid == (lo + hi + 1) \div 2
       IN  IF mid * mid <= m THEN ISqrtIn(m, mid, hi)
           ELSE ISqrtIn(m, lo, mid - 1)

ISqrt(m) == ISqrtIn(m, 0, IF m < 46340 THEN m ELSE 46340)

\* Math.sqrt, rounded down to a multiple of 1/SqrtScale
MathSqrt(a) ==
  CASE a.k = "nan"  -> NaN
    [] a.k = "ninf" -> NaN
    [] a.k = "pinf" -> PInf
    [] OTHER ->
         IF a.n < 0 THEN NaN
         ELSE Fin(ISqrt(ScaledFloor(a.n, a.d, SqrtScale * SqrtScale)),
                  SqrtScale)

\* Math.pow(a, 2)
MathPow2(a) == Mul(a, a)

\* Math.PI, in the angle unit of the model (degrees)
MathPI == Num(180)

\* 100 * sin of 0, 1, ..., 90 degrees, rounded
SinTable ==
  << 0, 2, 3, 5, 7, 9, 10, 12, 14, 16, 17, 19, 21, 22, 24, 26, 28, 29,
     31, 33, 34, 36, 37, 39, 41, 42, 44, 45, 47, 48, 50, 52, 53, 54,
     56, 57, 59, 60, 62, 63, 64, 66, 67, 68, 69, 71, 72, 73, 74, 75,
     77, 78, 79, 80, 81, 82, 83, 84, 85, 86, 87, 87, 88, 89, 90, 91,
     91, 92, 93, 93, 94, 95, 95, 96, 96, 97, 97, 97, 98, 98, 98, 99,
     99, 99, 99, 100, 100, 100, 100, 100, 100 >>

\* 100 * sin of a whole number of degrees
SinDeg(deg) ==
  LET t == deg % 360
      index == IF t <= 90 THEN t
               ELSE IF t <= 180 THEN 180 - t
               ELSE IF t <= 270 THEN t - 180
               ELSE 360 - t
  IN  (IF t <= 180 THEN 1 ELSE -1) * SinTable[index + 1]

\* the whole number of degrees nearest to a finite angle
RoundDeg(a) == (2 * a.n + a.d) \div (2 * a.d)

\* Math.sin
MathSin(a) ==
  IF a.k # "fin" THEN NaN
  ELSE Fin(SinDeg(RoundDeg(a)), 100)

\* Math.cos
MathCos(a) ==
  IF a.k # "fin" THEN NaN
  ELSE Fin(SinDeg(RoundDeg(a) + 90), 100)

\* ------------------------------------------------------------------------
\* vector.js and arrays
\* ------------------------------------------------------------------------

\* vector.add: the component-wise sum of two 3-vectors
vectorAdd(u, v) == << Add(u[1], v[1]), Add(u[2], v[2]), Add(u[3], v[3]) >>

\* Array.prototype.concat: returns a NEW array, the receiver is not changed
concat(arr, items) == arr \o items

\* Array.prototype.slice(from, to) with 0-based, end-exclusive indices
slice(arr, from, to) == SubSeq(arr, from + 1, to)

\* ------------------------------------------------------------------------
\* initial_conditions.js
\* ------------------------------------------------------------------------

\* numberOfStarsInOneRing that takes the innermost ring for ring 0
numberOfStarsInOneRingFromZero(ringNumber) == 12 + 6 * ringNumber

numberOfStarsInOneRing(ringNumber) == 12 + 6 * (ringNumber - 1)

RECURSIVE starsUpToRing(_, _)
starsUpToRing(ringNumber, numberOfRings) ==
  IF ringNumber > numberOfRings THEN 0
  ELSE numberOfStarsInOneRing(ringNumber)
         + starsUpToRing(ringNumber + 1, numberOfRings)

numberOfStarsInAllRingsOneGalaxy(numberOfRings) ==
  starsUpToRing(1, numberOfRings)

\* distance of the stars of a ring from the galaxy centre
distanceFromCenter(args, ringNumber) ==
  Mul(Num(ringNumber), args.ringSeparation)

\* speed of a star circling the galaxy centre: sqrt(M / r)
starSpeed(args, ringNumber) ==
  MathSqrt(Div(args.coreMass, distanceFromCenter(args, ringNumber)))

\* angle of star starNumber relative to the first star of its ring
starAngle(ringNumber, starNumber) ==
  Mul(Num(starNumber - 1),
      Div(Mul(Num(2), MathPI), Num(numberOfStarsInOneRing(ringNumber))))

\* tiltedPosition with the tilt applied to the sine component
tiltedPositionAboutX(corePosition, d, cosStar, sinStar, cosIncl, sinIncl) ==
  vectorAdd(corePosition,
            << Mul(d, cosStar),
               Mul(Mul(d, sinStar), cosIncl),
               Mul(Mul(Neg(d), sinStar), sinIncl) >>)

\* the array position of a star, given the distance d from the centre and
\* the cosines and sines of the star angle and of the galaxy angle
tiltedPosition(corePosition, d, cosStar, sinStar, cosIncl, sinIncl) ==
  vectorAdd(corePosition,
            << Mul(Mul(d, cosStar), cosIncl),
               Mul(d, sinStar),
               Mul(Mul(Neg(d), cosStar), sinIncl) >>)

\* the array velocity of a star, given its speed and the same cosines and
\* sines
tiltedVelocity(coreVelocity, speed, cosStar, sinStar, cosIncl, sinIncl) ==
  vectorAdd(coreVelocity,
            << Mul(Mul(Neg(speed), sinStar), cosIncl),
               Mul(speed, cosStar),
               Mul(Mul(speed, sinStar), sinIncl) >>)

starPositionAt(args, d, angle) ==
  tiltedPosition(args.corePosition, d, MathCos(angle), MathSin(angle),
                 MathCos(args.galaxyAngle), MathSin(args.galaxyAngle))

starVelocityAt(args, speed, angle) ==
  tiltedVelocity(args.coreVelocity, speed, MathCos(angle), MathSin(angle),
                 MathCos(args.galaxyAngle), MathSin(args.galaxyAngle))

\* position of one star in the coordinate system of the simulation
starPosition(args, ringNumber, starNumber) ==
  starPositionAt(args, distanceFromCenter(args, ringNumber),
                 starAngle(ringNumber, starNumber))

\* velocity of one star in the coordinate system of the simulation
starVelocity(args, ringNumber, starNumber) ==
  starVelocityAt(args, starSpeed(args, ringNumber),
                 starAngle(ringNumber, starNumber))

\* an expression statement: the value of the expression is not assigned
\* to anything, the variable keeps its value
unassigned(variable, value) == variable

\* The statements of the inner loop after position and velocity are
\* computed: positions.concat(position); velocities.concat(velocity);
\* computed records the position and velocity of every star the loop
\* visits, in the order of the visits.
storeStar(st, ringNumber, starNumber, position, velocity) ==
  [positions  |-> unassigned(st.positions, concat(st.positions, position)),
   velocities |-> unassigned(st.velocities,
                             concat(st.velocities, velocity)),
   computed   |-> Append(st.computed,
                    [ring |-> ringNumber, star |-> starNumber,
                     position |-> position, velocity |-> velocity])]

\* one pass of the inner loop
starLoopBody(args, st, ringNumber, starNumber) ==
  storeStar(st, ringNumber, starNumber,
            starPosition(args, ringNumber, starNumber),
            starVelocity(args, ringNumber, starNumber))

\* the inner loop from star starNumber on; a pass is finished, and its
\* state st evaluated, before the next pass starts
RECURSIVE starLoop(_, _, _, _)
starLoop(args, st, ringNumber, starNumber) ==
  IF starNumber > numberOfStarsInOneRing(ringNumber) THEN st
  ELSE CHOOSE after \in
         { starLoop(args, next, ringNumber, starNumber + 1) :
           next \in { starLoopBody(args, st, ringNumber, starNumber) } } :
         TRUE

\* the outer loop from ring ringNumber on
RECURSIVE ringLoop(_, _, _)
ringLoop(args, st, ringNumber) ==
  IF ringNumber > args.numberOfRings THEN st
  ELSE CHOOSE after \in
         { ringLoop(args, next, ringNumber + 1) :
           next \in { starLoop(args, st, ringNumber, 1) } } :
         TRUE

\* the two loops, started with positions = [] and velocities = []
galaxyLoops(args) ==
  ringLoop(args, [positions |-> << >>, velocities |-> << >>,
                  computed |-> << >>], 1)

\* return { positions, velocities }
returned(st) == [positions |-> st.positions, velocities |-> st.velocities]

galaxyStarsPositionsAndVelocities(args) == returned(galaxyLoops(args))

\* the argument object of the call made for galaxy galaxyNumber (0 or 1)
galaxyArgs(args, positions, velocities, galaxyNumber) ==
  [corePosition   |-> slice(positions, galaxyNumber * 3,
                            galaxyNumber * 3 + 3),
   coreVelocity   |-> slice(velocities, galaxyNumber * 3,
                            galaxyNumber * 3 + 3),
   coreMass       |-> args.masses[galaxyNumber + 1],
   galaxyAngle    |-> args.galaxyInclinationAngles[galaxyNumber + 1],
   numberOfRings  |-> args.numberOfRings[galaxyNumber + 1],
   ringSeparation |-> args.ringSeparation]

\* semi-major axis: a = rMin / (1 - e)
semiMajorAxis(args) ==
  Div(args.minimalGalaxySeparation, Sub(Num(1), args.eccentricity))

\* distance of the cores at apastron: r = a (1 + e)
apastron(args) == Mul(semiMajorAxis(args), Add(Num(1), args.eccentricity))

totalMass(args) == Add(args.masses[1], args.masses[2])

\* pushCorePositions with each core weighted by its own mass
pushCorePositionsOwnMass(r, masses, M) ==
  << Div(Mul(Neg(r), masses[1]), M), Num(0), Num(0),
     Div(Mul(r, masses[2]), M), Num(0), Num(0) >>

\* the two calls of positions.push
pushCorePositions(r, masses, M) ==
  << Div(Mul(Neg(r), masses[2]), M), Num(0), Num(0),
     Div(Mul(r, masses[1]), M), Num(0), Num(0) >>

\* positions after the two push calls: the two cores
corePositions(args) ==
  pushCorePositions(apastron(args), args.masses, totalMass(args))

\* speed of the second core seen from the first one
relativeSpeed(args) ==
  Div(MathSqrt(Mul(Mul(semiMajorAxis(args),
                       Sub(Num(1), MathPow2(args.eccentricity))),
                   totalMass(args))),
      apastron(args))

\* pushCoreVelocities with both cores moving in the same direction
pushCoreVelocitiesSameDirection(v0, masses, M) ==
  << Num(0), Div(Mul(v0, masses[2]), M), Num(0),
     Num(0), Div(Mul(v0, masses[1]), M), Num(0) >>

\* the two calls of velocities.push
pushCoreVelocities(v0, masses, M) ==
  << Num(0), Div(Mul(Neg(v0), masses[2]), M), Num(0),
     Num(0), Div(Mul(v0, masses[1]), M), Num(0) >>

\* velocities after the two push calls: the two cores
coreVelocities(args) ==
  pushCoreVelocities(relativeSpeed(args), args.masses, totalMass(args))

\* positions = positions.concat(galaxy.positions), and the velocities
addGalaxy(st, galaxy) ==
  [positions  |-> concat(st.positions, galaxy.positions),
   velocities |-> concat(st.velocities, galaxy.velocities)]

\* one pass of the loop over the two galaxies
galaxyLoopBody(args, st, galaxyNumber) ==
  addGalaxy(st, galaxyStarsPositionsAndVelocities(
                  galaxyArgs(args, st.positions, st.velocities,
                             galaxyNumber)))

RECURSIVE galaxyLoop(_, _, _)
galaxyLoop(args, st, galaxyNumber) ==
  IF galaxyNumber >= 2 THEN st
  ELSE galaxyLoop(args, galaxyLoopBody(args, st, galaxyNumber),
                  galaxyNumber + 1)

\* the returned object { positions, velocities }
allPositionsAndVelocities(args) ==
  galaxyLoop(args, [positions  |-> corePositions(args),
                    velocities |-> coreVelocities(args)], 0)

\* the stars visited by the call made for galaxy galaxyNumber, in order
starsComputed(args, galaxyNumber) ==
  galaxyLoops(galaxyArgs(args, corePositions(args), coreVelocities(args),
                         galaxyNumber)).computed

\* ------------------------------------------------------------------------
\* simulation.js, zoom.js, render.js
\* ------------------------------------------------------------------------

\* a property that holds null, or an array
Null == [isNull |-> TRUE, arr |-> << >>]
Arr(a) == [isNull |-> FALSE, arr |-> a]

\* Math.round: the nearest integer, halves rounded up
MathRound(a) ==
  IF a.k # "fin" THEN a ELSE Num((2 * a.n + a.d) \div (2 * a.d))

\* time step of 1 for a 60 FPS screen, smaller for higher refresh rates
calculateTimeStep(screenRefreshRateFPS) ==
  LET rounded == Mul(MathRound(Div(screenRefreshRateFPS, Num(10))), Num(10))
  IN  Div(Num(60), rounded)

\* a stored number: rounded down to a multiple of 1/GridScale
Stored(a) ==
  IF a.k # "fin" THEN a ELSE Fin(ScaledFloor(a.n, a.d, GridScale), GridScale)

body(arr, i) == SubSeq(arr, 3 * i + 1, 3 * i + 3)

vectorSub(u, v) == << Sub(u[1], v[1]), Sub(u[2], v[2]), Sub(u[3], v[3]) >>

squaredLength(u) == Add(Add(Mul(u[1], u[1]), Mul(u[2], u[2])), Mul(u[3], u[3]))

\* m d / |d|^3 for the vector d with squared length d2
pullAlong(m, d, d2) ==
  << Div(Mul(m, d[1]), Mul(d2, MathSqrt(d2))),
     Div(Mul(m, d[2]), Mul(d2, MathSqrt(d2))),
     Div(Mul(m, d[3]), Mul(d2, MathSqrt(d2))) >>

pullTowards(m, d) == pullAlong(m, d, squaredLength(d))

\* acceleration of body i caused by core c: m_c (p_c - p_i) / |p_c - p_i|^3
pull(masses, positions, i, c) ==
  pullTowards(masses[c + 1], vectorSub(body(positions, c), body(positions, i)))

\* acceleration of body i: the pull of the two cores, a core does not
\* pull itself
acceleration(masses, positions, i) ==
  vectorAdd(IF i = 0 THEN << Num(0), Num(0), Num(0) >>
            ELSE pull(masses, positions, i, 0),
            IF i = 1 THEN << Num(0), Num(0), Num(0) >>
            ELSE pull(masses, positions, i, 1))

RECURSIVE accelerationsFrom(_, _, _)
accelerationsFrom(masses, positions, i) ==
  IF 3 * i >= Len(positions) THEN << >>
  ELSE acceleration(masses, positions, i)
         \o accelerationsFrom(masses, positions, i + 1)

\* moveBodies that adds a body at rest at the origin
moveBodiesAddingBody(current, a, v, dt) ==
  [current EXCEPT
     !.positions = Arr([n \in 1 .. Len(current.positions.arr) |->
                         Stored(Add(current.positions.arr[n],
                                    Mul(v[n], dt)))]
                       \o << Num(0), Num(0), Num(0) >>),
     !.velocities = Arr(v \o << Num(0), Num(0), Num(0) >>),
     !.accelerations = Arr(a)]

\* p <- p + v dt with the new velocities v
moveBodies(current, a, v, dt) ==
  [current EXCEPT
     !.positions = Arr([n \in 1 .. Len(current.positions.arr) |->
                         Stored(Add(current.positions.arr[n],
                                    Mul(v[n], dt)))]),
     !.velocities = Arr(v),
     !.accelerations = Arr(a)]

\* v <- v + a dt, then the positions
accelerateBodies(current, a, dt) ==
  moveBodies(current, a,
             [n \in 1 .. Len(current.velocities.arr) |->
                Stored(Add(current.velocities.arr[n], Mul(a[n], dt)))],
             dt)

\* one semi-implicit Euler step of size dt: v <- v + a dt, p <- p + v dt
integrate(initial, current, dt) ==
  accelerateBodies(current,
                   accelerationsFrom(initial.masses,
                                     current.positions.arr, 0),
                   dt)

\* the step of the next update: a pending fast forward replaces the
\* normal step
stepSize(current) ==
  IF current.fastForwardSeconds # Num(0) THEN current.fastForwardSeconds
  ELSE Mul(current.timeStep, current.timeDirection)

\* update without the test of paused
updateIgnoringPause(initial, current) ==
  [integrate(initial, current, stepSize(current))
     EXCEPT !.fastForwardSeconds = Num(0)]

\* update that leaves the fast forward request pending
updateKeepingFastForward(initial, current) ==
  IF current.paused THEN current
  ELSE integrate(initial, current, stepSize(current))

\* simulation.update: nothing when paused, else one step; a pending fast
\* forward is cleared
update(initial, current) ==
  IF current.paused THEN current
  ELSE [integrate(initial, current, stepSize(current))
          EXCEPT !.fastForwardSeconds = Num(0)]

\* currentParams.positions = ..., currentParams.velocities = ...
storeBodies(current, generated) ==
  [current EXCEPT !.positions = Arr(generated.positions),
                  !.velocities = Arr(generated.velocities)]

\* simulation.setInitial: stores the generated bodies as the current state
setInitial(initial, current) ==
  storeBodies(current, allPositionsAndVelocities(initial))

\* zoom.updateCameraDistance: computes the camera distance if it is null
updateCameraDistance(current) ==
  [current EXCEPT !.cameraDistanceIsNull = FALSE]

\* new Float32Array(positions): single precision, here multiples of 1/8
Float32Array(positions) ==
  [n \in 1 .. Len(positions) |->
     IF positions[n].k # "fin" THEN positions[n]
     ELSE Fin(ScaledFloor(positions[n].n, positions[n].d, 8), 8)]

\* drawScene that draws one body for every number of the array
drawSceneCountingNumbers(draw, current) ==
  IF current.positions.isNull
    THEN [draw EXCEPT !.threw = TRUE]
    ELSE [draw EXCEPT
            !.positionBuffer = Float32Array(current.positions.arr),
            !.numberOfBodies = Len(current.positions.arr)]

\* drawScene: copies the positions into the buffer of the GPU and draws
\* positions.length / 3 points; reading the length of null throws
drawScene(draw, current) ==
  IF current.positions.isNull
    THEN [draw EXCEPT !.threw = TRUE]
    ELSE [draw EXCEPT
            !.positionBuffer = Float32Array(current.positions.arr),
            !.numberOfBodies = Len(current.positions.arr) \div 3]

\* graphics.loadColors: fills the colour buffer for the bodies
loadColors(draw, initial) == [draw EXCEPT !.colorBuffer = "loaded"]

calledSetInitial == << "setInitial", "updateCameraDistance", "drawScene" >>
calledUpdate == << "update", "drawScene" >>

\* onNextFrame that takes every frame for the first frame
onNextFrameAlwaysFirst(initial, current) ==
  [current |-> updateCameraDistance(setInitial(initial, current)),
   calls   |-> calledSetInitial]

\* the body of the callback returned by onNextFrame, up to drawScene
onNextFrame(initial, current) ==
  IF current.positions.isNull
    THEN [current |-> updateCameraDistance(setInitial(initial, current)),
          calls   |-> calledSetInitial]
    ELSE [current |-> update(initial, current),
          calls   |-> calledUpdate]

\* main.js restart: forgets the bodies and the zoom
restart(current) ==
  [current EXCEPT !.positions = Null, !.velocities = Null,
                  !.accelerations = Null, !.cameraDistanceIsNull = TRUE]

\* didClickRestart that also resumes a paused simulation
didClickRestartResuming(current) ==
  [current EXCEPT !.positions = Null, !.velocities = Null,
                  !.accelerations = Null, !.paused = FALSE]

\* user_input.js didClickRestart
didClickRestart(current) ==
  [current EXCEPT !.positions = Null, !.velocities = Null,
                  !.accelerations = Null]

\* didClickReverseTime that always sets the backward direction
didClickReverseTimeBackward(current) ==
  [current EXCEPT !.timeDirection = Num(-1)]

didClickReverseTime(current) ==
  [current EXCEPT !.timeDirection = Mul(@, Num(-1))]

didClickPause(current) == [current EXCEPT !.paused = TRUE]

didClickResume(current) == [current EXCEPT !.paused = FALSE]

\* didClickFastForward that adds the seconds to the pending request
didClickFastForwardAdding(current, fastForwardSeconds) ==
  [current EXCEPT !.fastForwardSeconds = Add(@, fastForwardSeconds)]

didClickFastForward(current, fastForwardSeconds) ==
  [current EXCEPT !.fastForwardSeconds = fastForwardSeconds]

\* classList.toggle of the hidden class on each of the buttons
toggleElements(hiddenNow, buttons) ==
  (hiddenNow \ buttons) \cup (buttons \ hiddenNow)

\* ------------------------------------------------------------------------
\* rotate_on_touch.js, m4.js
\* ------------------------------------------------------------------------

\* a matrix is the product of the rotations it was multiplied by, the last
\* one first; m4.indentity() is the empty product
indentity == << >>

\* m4.xRotation, m4.yRotation: the rotation about an axis by an angle
xRotation(angleInRadians) == [axis |-> "x", angle |-> angleInRadians]

yRotation(angleInRadians) == [axis |-> "y", angle |-> angleInRadians]

\* m4.multiply(rotation, matrix): a rotation by 0 is the identity matrix
multiply(rotation, matrix) ==
  IF rotation.angle = Num(0) THEN matrix ELSE << rotation >> \o matrix

\* lastPosition: null or [pageX, pageY]
NoPosition == [isNull |-> TRUE, pageX |-> 0, pageY |-> 0]

Position(e) == [isNull |-> FALSE, pageX |-> e.pageX, pageY |-> e.pageY]

startMoving(state, e) ==
  [state EXCEPT !.moving = TRUE, !.lastPosition = Position(e)]

\* the two assignments of worldMatrix and the one of lastPosition
rotate(state, e, delta) ==
  [state EXCEPT
     !.worldMatrix =
        multiply(yRotation(Div(Num(delta[1]), Num(100))),
                 multiply(xRotation(Div(Num(delta[2]), Num(100))),
                          state.worldMatrix)),
     !.lastPosition = Position(e)]

\* move that does not test state.moving
moveWithoutDrag(state, e) ==
  IF state.lastPosition.isNull THEN state
  ELSE rotate(state, e, << e.pageX - state.lastPosition.pageX,
                           e.pageY - state.lastPosition.pageY >>)

move(state, e) ==
  IF ~state.moving THEN state
  ELSE IF state.lastPosition.isNull THEN state
  ELSE rotate(state, e, << e.pageX - state.lastPosition.pageX,
                           e.pageY - state.lastPosition.pageY >>)

stopMoving(state) == [state EXCEPT !.moving = FALSE]

\* the object state made by init
initRotate ==
  [moving |-> FALSE, lastPosition |-> NoPosition, worldMatrix |-> indentity]

\* ------------------------------------------------------------------------
\* State
\* ------------------------------------------------------------------------

VARIABLES
  args,          \* the configuration object a caller passes to the generator
  result,        \* what the call of allPositionsAndVelocities(args) produced
  initialParams, \* main: parameters that can't be changed without restart
  currentParams, \* main: parameters that change during the simulation
  drawData,      \* WebGL side: the position buffer and the last draw call
  hidden,        \* buttons that carry the class TwoGalaxies-button--isHidden
  calls,         \* what the last frame or button handler called
  frames,        \* number of animation frames run so far
  counts,        \* a ring number, a ring count and the star counts returned
  rotateState    \* rotate_on_touch.js: the object state made by init

genVars == << args, result >>

countVars == << counts >>

rotateVars == << rotateState >>

simVars == << initialParams, currentParams, drawData, hidden, calls, frames >>

vars == << args, result, initialParams, currentParams, drawData, hidden,
           calls, frames, counts, rotateState >>

\* ------------------------------------------------------------------------
\* The generator called on its own, as the unit tests do
\* ------------------------------------------------------------------------

\* ring counts: 0 is not a valid count
RingCounts == 0 .. MaxRings

\* core masses: 0 and -1 are not valid masses
Masses == { Num(1), Fin(7, 10), Num(0), Num(-1) }

\* eccentricities: 1 and 6/5 are outside [0, 1)
Eccentricities == { Num(0), Fin(3, 10), Fin(3, 5), Num(1), Fin(6, 5) }

\* ring separations: 0 is not a valid separation
RingSeparations == { Num(3), Num(0) }

\* periastron distances
Separations == { Num(3), Num(25) }

\* inclination angles of the two galaxies, in degrees
Inclinations == { << Num(0), Num(0) >>, << Num(60), Num(60) >>,
                  << Num(7), Num(30) >> }

Configuration(rings, s, rMin, incl, m, e) ==
  [numberOfRings           |-> rings,
   ringSeparation          |-> s,
   minimalGalaxySeparation |-> rMin,
   galaxyInclinationAngles |-> incl,
   masses                  |-> m,
   eccentricity            |-> e]

\* every shape of the two galaxies, for two pairs of cores
GalaxyConfigurations ==
  { Configuration(<< n0, n1 >>, s, Num(3), incl, me[1], me[2]) :
    n0 \in RingCounts, n1 \in RingCounts, s \in RingSeparations,
    incl \in Inclinations,
    me \in { << << Num(1), Fin(7, 10) >>, Fin(3, 10) >>,
             << << Num(1), Num(1) >>, Fin(3, 5) >> } }

\* every orbit of the two cores, for galaxies of one ring
OrbitConfigurations ==
  { Configuration(<< 1, 1 >>, Num(3), rMin, << Num(7), Num(7) >>,
                  << m0, m1 >>, e) :
    rMin \in Separations, m0 \in Masses, m1 \in Masses,
    e \in Eccentricities }

Configurations == GalaxyConfigurations \cup OrbitConfigurations

\* the configurations the data model of the simulation allows
Valid(c) ==
  /\ Sign(c.masses[1]) > 0 /\ Sign(c.masses[2]) > 0
  /\ Sign(c.eccentricity) >= 0 /\ Less(c.eccentricity, Num(1))
  /\ c.numberOfRings[1] >= 1 /\ c.numberOfRings[2] >= 1
  /\ Sign(c.ringSeparation) > 0
  /\ Sign(c.minimalGalaxySeparation) > 0

NotCalled == [status |-> "none", positions |-> << >>, velocities |-> << >>]

\* a call that returns; the function has no throw statement
Returned(value) ==
  [status |-> "returned", positions |-> value.positions,
   velocities |-> value.velocities]

\* ------------------------------------------------------------------------
\* The page: main, the frame loop and the buttons
\* ------------------------------------------------------------------------

\* configurations main is started with
StartConfigurations ==
  { Configuration(<< 1, 1 >>, Num(3), Num(3), << Num(7), Num(7) >>,
                  << Num(1), Fin(7, 10) >>, Fin(3, 10)) }

\* refresh rates measureRefreshRate may report: a usual screen, a fast
\* screen, and a page that gets four frames a second
RefreshRates == { Num(60), Num(144), Num(4) }

\* the object currentParams built by main
StartParams(fps) ==
  [positions            |-> Null,
   velocities           |-> Null,
   accelerations        |-> Null,
   paused               |-> FALSE,
   screenRefreshRateFPS |-> fps,
   timeStep             |-> calculateTimeStep(fps),
   fastForwardSeconds   |-> Num(0),
   timeDirection        |-> Num(1),
   cameraDistanceIsNull |-> TRUE]

StartDrawData ==
  [positionBuffer |-> << >>, numberOfBodies |-> 0, colorBuffer |-> "loaded",
   threw |-> FALSE]

\* the resume button and the second reverse button start hidden
StartHidden == { "resumeButton", "reverseTime2Button" }

InitSimWith(configurations, rates) ==
  /\ initialParams \in configurations
  /\ \E fps \in rates : currentParams = StartParams(fps)
  /\ drawData = StartDrawData
  /\ hidden = StartHidden
  /\ calls = << >>
  /\ frames = 0

InitGenWith(configurations) ==
  /\ args \in configurations
  /\ result = NotCalled

\* the counts before a function is called
InitCountWith(ringNumbers, ringCounts) ==
  \E ringNumber \in ringNumbers, numberOfRings \in ringCounts :
    counts = [ringNumber |-> ringNumber, numberOfRings |-> numberOfRings,
              oneRing |-> << >>, allRings |-> << >>]

InitRotate == rotateState = initRotate

OneConfiguration ==
  { Configuration(<< 1, 1 >>, Num(3), Num(3), << Num(60), Num(60) >>,
                  << Num(1), Num(1) >>, Num(0)) }

Init ==
  /\ InitSimWith(StartConfigurations, RefreshRates)
  /\ InitGenWith(OneConfiguration)
  /\ InitCountWith({ 1 }, { 5 })
  /\ InitRotate

InitGen ==
  /\ InitGenWith(Configurations)
  /\ InitSimWith(OneConfiguration, { Num(60) })
  /\ InitCountWith({ 1 }, { 5 })
  /\ InitRotate

\* the star counts asked for every ring number and ring count
InitCount ==
  /\ InitCountWith(1 .. MaxRingNumber, 0 .. MaxRingNumber)
  /\ InitGenWith(OneConfiguration)
  /\ InitSimWith(OneConfiguration, { Num(60) })
  /\ InitRotate

\* the page of 0120_rotate after init(canvas)
InitDrag ==
  /\ InitRotate
  /\ InitCountWith({ 1 }, { 5 })
  /\ InitGenWith(OneConfiguration)
  /\ InitSimWith(OneConfiguration, { Num(60) })

\* var { positions, velocities } = init.allPositionsAndVelocities(...)
CallGenerator ==
  /\ result.status = "none"
  /\ result' = Returned(allPositionsAndVelocities(args))
  /\ UNCHANGED args
  /\ UNCHANGED << simVars, countVars, rotateVars >>

\* one animation frame
Frame ==
  /\ frames < MaxFrames
  /\ \E next \in { onNextFrame(initialParams, currentParams) } :
       /\ currentParams' = next.current
       /\ calls' = next.calls
       /\ drawData' = drawScene(drawData, next.current)
  /\ frames' = frames + 1
  /\ UNCHANGED << initialParams, hidden, genVars, countVars,
               rotateVars >>

\* the callback main hands to initUserInput
Restart ==
  \E reloadColors \in BOOLEAN :
    /\ currentParams' = restart(currentParams)
    /\ drawData' = IF reloadColors THEN loadColors(drawData, initialParams)
                   ELSE drawData
    /\ calls' = IF reloadColors THEN << "loadColors" >> ELSE << >>
    /\ UNCHANGED << initialParams, hidden, frames, genVars, countVars,
               rotateVars >>

ClickRestart ==
  /\ currentParams' = didClickRestart(currentParams)
  /\ calls' = << >>
  /\ UNCHANGED << initialParams, drawData, hidden, frames, genVars, countVars,
               rotateVars >>

ClickReverseTime ==
  /\ currentParams' = didClickReverseTime(currentParams)
  /\ hidden' = toggleElements(hidden,
                              { "reverseTimeButton", "reverseTime2Button" })
  /\ calls' = << >>
  /\ UNCHANGED << initialParams, drawData, frames, genVars, countVars,
               rotateVars >>

ClickPause ==
  /\ currentParams' = didClickPause(currentParams)
  /\ hidden' = toggleElements(hidden, { "pauseButton", "resumeButton" })
  /\ calls' = << >>
  /\ UNCHANGED << initialParams, drawData, frames, genVars, countVars,
               rotateVars >>

ClickResume ==
  /\ currentParams' = didClickResume(currentParams)
  /\ hidden' = toggleElements(hidden, { "pauseButton", "resumeButton" })
  /\ calls' = << >>
  /\ UNCHANGED << initialParams, drawData, frames, genVars, countVars,
               rotateVars >>

ClickFastForward ==
  \E fastForwardSeconds \in { Num(5), Num(-5) } :
    /\ currentParams' = didClickFastForward(currentParams, fastForwardSeconds)
    /\ calls' = << >>
    /\ UNCHANGED << initialParams, drawData, hidden, frames, genVars,
                    countVars, rotateVars >>

Next ==
  \/ Frame
  \/ Restart
  \/ ClickRestart
  \/ ClickReverseTime
  \/ ClickPause
  \/ ClickResume
  \/ ClickFastForward

Spec == Init /\ [][Next]_vars

NextGen == CallGenerator

SpecGen == InitGen /\ [][NextGen]_vars

\* init.numberOfStarsInOneRing(ringNumber)
CountOneRing ==
  /\ counts.oneRing = << >>
  /\ counts' = [counts EXCEPT
                  !.oneRing = << numberOfStarsInOneRing(counts.ringNumber) >>]
  /\ UNCHANGED << genVars, simVars, rotateVars >>

\* init.numberOfStarsInAllRingsOneGalaxy(numberOfRings)
CountAllRings ==
  /\ counts.allRings = << >>
  /\ counts' = [counts EXCEPT
                  !.allRings =
                     << numberOfStarsInAllRingsOneGalaxy(
                          counts.numberOfRings) >>]
  /\ UNCHANGED << genVars, simVars, rotateVars >>

NextCount == CountOneRing \/ CountAllRings

SpecCount == InitCount /\ [][NextCount]_vars

\* where the mouse or the finger of an event is
Pointers == { [pageX |-> x, pageY |-> y] : x \in { 0, 30 }, y \in { 0, 40 } }

\* mousedown, touchstart on the canvas
StartMoving ==
  \E e \in Pointers :
    /\ rotateState' = startMoving(rotateState, e)
    /\ UNCHANGED << genVars, simVars, countVars >>

\* mousemove, touchmove on the document
Move ==
  \E e \in Pointers :
    /\ Len(rotateState.worldMatrix) + 2 <= MaxRotations
    /\ rotateState' = move(rotateState, e)
    /\ UNCHANGED << genVars, simVars, countVars >>

\* mouseup, dragend, touchend on the document
StopMoving ==
  /\ rotateState' = stopMoving(rotateState)
  /\ UNCHANGED << genVars, simVars, countVars >>

NextDrag == StartMoving \/ Move \/ StopMoving

SpecDrag == InitDrag /\ [][NextDrag]_vars

\* ------------------------------------------------------------------------
\* Properties of the generator
\* ------------------------------------------------------------------------

\* number of bodies of a configuration: two cores and the stars of both
numberOfBodies(c) ==
  2 + numberOfStarsInAllRingsOneGalaxy(c.numberOfRings[1])
    + numberOfStarsInAllRingsOneGalaxy(c.numberOfRings[2])

RECURSIVE FlatPositions(_)
FlatPositions(stars) ==
  IF stars = << >> THEN << >>
  ELSE Head(stars).position \o FlatPositions(Tail(stars))

\* the stars of a trace come ring by ring and, in a ring, by star number
RingByRing(stars) ==
  \A i \in 1 .. Len(stars) - 1 :
    \/ /\ stars[i + 1].ring = stars[i].ring
       /\ stars[i + 1].star = stars[i].star + 1
    \/ /\ stars[i + 1].ring = stars[i].ring + 1
       /\ stars[i + 1].star = 1
       /\ stars[i].star = numberOfStarsInOneRing(stars[i].ring)

\* C1 (as claimed): the returned positions and velocities arrays each hold
\* 3*N numbers, N = 2 + stars of galaxy 0 + stars of galaxy 1.
C1_ArraysHoldAllBodies ==
  result.status = "returned" =>
    /\ Len(result.positions) = 3 * numberOfBodies(args)
    /\ Len(result.velocities) = 3 * numberOfBodies(args)

\* C5 (as claimed): the returned list is core 0, core 1, the stars of
\* galaxy 0, then the stars of galaxy 1, each galaxy ring by ring from ring 1
\* and each ring by increasing star number.
C5_CoresThenStarsInOrder ==
  result.status = "returned" =>
    /\ RingByRing(starsComputed(args, 0))
    /\ RingByRing(starsComputed(args, 1))
    /\ result.positions =
         corePositions(args) \o FlatPositions(starsComputed(args, 0))
                             \o FlatPositions(starsComputed(args, 1))

\* the offset of star j of ring k from its core, tilted about the x-axis:
\* (x, y cos i, -y sin i)
TiltAboutX(c, galaxyNumber, k, j) ==
  LET d == Mul(Num(k), c.ringSeparation)
      theta == Div(Mul(Num(j - 1), Num(360)), Num(numberOfStarsInOneRing(k)))
      incl == c.galaxyInclinationAngles[galaxyNumber + 1]
      x == Mul(d, MathCos(theta))
      y == Mul(d, MathSin(theta))
  IN  << x, Mul(y, MathCos(incl)), Neg(Mul(y, MathSin(incl))) >>

\* the offset of star j of ring k from its core, tilted about the y-axis:
\* (x cos i, y, -x sin i)
TiltAboutY(c, galaxyNumber, k, j) ==
  LET d == Mul(Num(k), c.ringSeparation)
      theta == Div(Mul(Num(j - 1), Num(360)), Num(numberOfStarsInOneRing(k)))
      incl == c.galaxyInclinationAngles[galaxyNumber + 1]
      x == Mul(d, MathCos(theta))
      y == Mul(d, MathSin(theta))
  IN  << Mul(x, MathCos(incl)), y, Neg(Mul(x, MathSin(incl))) >>

\* position of core galaxyNumber in the returned list
CoreOf(galaxyNumber) ==
  SubSeq(result.positions, 3 * galaxyNumber + 1, 3 * galaxyNumber + 3)

PlusOffset(core, offset) ==
  << Add(core[1], offset[1]), Add(core[2], offset[2]),
     Add(core[3], offset[3]) >>

\* C6 (as claimed): the position generated for star j of ring k is the core
\* position plus (x, y cos i, -y sin i); the first star of a ring is at
\* offset (d, 0, 0).
C6_TiltIsAboutXAxis ==
  (result.status = "returned" /\ Valid(args)) =>
    \A g \in 0 .. 1 :
      LET stars == starsComputed(args, g)
      IN  \A n \in 1 .. Len(stars) :
            stars[n].position =
              PlusOffset(CoreOf(g),
                         TiltAboutX(args, g, stars[n].ring, stars[n].star))

\* C6 (amended): the position computed for star j of ring k is the core
\* position plus (x cos i, y, -x sin i): the tilt is a rotation about the
\* y-axis that leaves the sine component unchanged.
C6_TiltIsAboutYAxis ==
  (result.status = "returned" /\ Valid(args)) =>
    \A g \in 0 .. 1 :
      LET stars == starsComputed(args, g)
      IN  /\ Len(stars) =
               numberOfStarsInAllRingsOneGalaxy(args.numberOfRings[g + 1])
          /\ \A n \in 1 .. Len(stars) :
               stars[n].position =
                 PlusOffset(CoreOf(g),
                            TiltAboutY(args, g, stars[n].ring, stars[n].star))

\* C6 witness: a returned call for two tilted galaxies of two rings
C6_Witness ==
  /\ result.status = "returned" /\ Valid(args)
  /\ args.numberOfRings = << 2, 2 >>
  /\ args.galaxyInclinationAngles = << Num(7), Num(30) >>
  /\ starsComputed(args, 1)[14].position # CoreOf(1)

\* the apastron distance rMin (1 + e) / (1 - e)
ApastronDistance(c) ==
  Div(Mul(c.minimalGalaxySeparation, Add(Num(1), c.eccentricity)),
      Sub(Num(1), c.eccentricity))

\* C7: for a valid configuration core 0 is at (-r m1/M, 0, 0) and core 1 at
\* (r m0/M, 0, 0); their distance is r and m0 x0 + m1 x1 = 0.
C7_CoresAtApastron ==
  (result.status = "returned" /\ Valid(args)) =>
    LET r  == ApastronDistance(args)
        m0 == args.masses[1]
        m1 == args.masses[2]
        M  == Add(m0, m1)
        x0 == result.positions[1]
        x1 == result.positions[4]
    IN  /\ SubSeq(result.positions, 1, 6) =
             << Neg(Div(Mul(r, m1), M)), Num(0), Num(0),
                Div(Mul(r, m0), M), Num(0), Num(0) >>
        /\ Sub(x1, x0) = r
        /\ Add(Mul(m0, x0), Mul(m1, x1)) = Num(0)

\* C7 witness: a returned call for cores of different mass on an
\* eccentric orbit
C7_Witness ==
  /\ result.status = "returned" /\ Valid(args)
  /\ args.masses = << Num(1), Fin(7, 10) >>
  /\ args.eccentricity = Fin(3, 10)
  /\ result.positions[1] = Fin(-39, 17)

\* C8: for a valid configuration the momenta of the cores cancel:
\* vy0 = -v0 m1/M, vy1 = v0 m0/M, m0 vy0 + m1 vy1 = 0, and the x and z
\* components of both core velocities are 0.
C8_CoreMomentumIsZero ==
  (result.status = "returned" /\ Valid(args)) =>
    LET v0 == relativeSpeed(args)
        m0 == args.masses[1]
        m1 == args.masses[2]
        M  == Add(m0, m1)
        v  == result.velocities
    IN  /\ v[2] = Neg(Div(Mul(v0, m1), M))
        /\ v[5] = Div(Mul(v0, m0), M)
        /\ Add(Mul(m0, v[2]), Mul(m1, v[5])) = Num(0)
        /\ v[1] = Num(0) /\ v[3] = Num(0)
        /\ v[4] = Num(0) /\ v[6] = Num(0)

\* C8 witness: a returned call whose cores of different mass move
C8_Witness ==
  /\ result.status = "returned" /\ Valid(args)
  /\ args.masses = << Fin(7, 10), Num(1) >>
  /\ Sign(result.velocities[5]) > 0
  /\ Sign(result.velocities[2]) < 0

\* C9 (as claimed): a call with an invalid configuration does not return a
\* body list.
C9_InvalidConfigurationIsRejected ==
  result.status = "returned" => Valid(args)

\* ------------------------------------------------------------------------
\* Properties of the frame loop
\* ------------------------------------------------------------------------

Running == ~currentParams.positions.isNull

\* a step of the frame loop: only Frame counts frames
FrameStep == frames' = frames + 1

\* the bodies main starts with after the first frame
FirstFrameParams ==
  setInitial(initialParams, StartParams(currentParams.screenRefreshRateFPS))

\* C2: a frame that runs update while paused leaves the positions and the
\* velocities unchanged, whatever timeDirection and fastForwardSeconds are,
\* and the frame is drawn.
C2_PausedFrameKeepsBodies ==
  [][(FrameStep /\ Running /\ currentParams.paused) =>
       /\ currentParams'.positions = currentParams.positions
       /\ currentParams'.velocities = currentParams.velocities
       /\ calls' = calledUpdate
       /\ ~drawData'.threw
       /\ drawData'.numberOfBodies = Len(currentParams.positions.arr) \div 3
       /\ drawData'.positionBuffer =
            Float32Array(currentParams.positions.arr)]_vars

\* C2 witness: a frame has just run update while paused, with a fast forward
\* pending and time reversed, on bodies that had moved before
C2_Witness ==
  /\ Running /\ currentParams.paused
  /\ calls = calledUpdate
  /\ currentParams.fastForwardSeconds = Num(5)
  /\ currentParams.timeDirection = Num(-1)
  /\ currentParams.positions # FirstFrameParams.positions
  /\ drawData.numberOfBodies = 2

\* C3: a frame calls setInitial exactly when positions is null and update
\* exactly when it is not; a restart makes positions null; positions stays
\* null until the next frame, which calls setInitial once and no update;
\* drawScene never runs on null positions.
C3_FrameLoopStateMachine ==
  [][/\ (FrameStep /\ ~Running) =>
          (calls' = calledSetInitial /\ ~currentParams'.positions.isNull)
     /\ (FrameStep /\ Running) =>
          (calls' = calledUpdate /\ ~currentParams'.positions.isNull)
     /\ FrameStep => ~drawData'.threw
     /\ (Restart \/ ClickRestart) => currentParams'.positions.isNull
     /\ (~FrameStep /\ ~Running) => currentParams'.positions.isNull
     /\ (~FrameStep /\ ~Restart /\ ~ClickRestart) =>
          currentParams'.positions = currentParams.positions]_vars

\* C3 witness: the third frame was a first frame again, so a restart came
\* after the bodies had been set
C3_Witness ==
  /\ frames = 3
  /\ calls = calledSetInitial
  /\ Running
  /\ drawData.numberOfBodies = 2

\* C4: a non-paused update with a pending fast forward takes one step of
\* fastForwardSeconds instead of timeStep * timeDirection and clears the
\* request; without a request it takes the normal step; a paused update
\* keeps the request; only a click makes a new request.
C4_FastForwardIsOneShot ==
  [][/\ (FrameStep /\ Running /\ ~currentParams.paused) =>
          LET normal == Mul(currentParams.timeStep,
                            currentParams.timeDirection)
              dt == IF currentParams.fastForwardSeconds = Num(0)
                      THEN normal ELSE currentParams.fastForwardSeconds
              stepped == integrate(initialParams, currentParams, dt)
          IN  /\ currentParams'.positions = stepped.positions
              /\ currentParams'.velocities = stepped.velocities
              /\ currentParams'.fastForwardSeconds = Num(0)
     /\ (FrameStep /\ Running /\ currentParams.paused) =>
          currentParams'.fastForwardSeconds = currentParams.fastForwardSeconds
     /\ (currentParams'.fastForwardSeconds # Num(0)
         /\ currentParams'.fastForwardSeconds
              # currentParams.fastForwardSeconds) => ClickFastForward]_vars

\* C4 witness: the second frame has applied a rewind of 5 seconds to the
\* bodies of the first frame and cleared the request
C4_Witness ==
  /\ frames = 2
  /\ calls = calledUpdate
  /\ currentParams.fastForwardSeconds = Num(0)
  /\ currentParams.positions =
       integrate(initialParams, FirstFrameParams, Num(-5)).positions
  /\ currentParams.positions # FirstFrameParams.positions
  /\ currentParams.positions #
       integrate(initialParams, FirstFrameParams,
                 currentParams.timeStep).positions

\* C11: from a setInitial to the next restart the positions and the
\* velocities arrays keep their lengths, whatever frame or button handler
\* runs; the two arrays have the same length.
C11_BodyListLengthIsFixed ==
  [][(Running /\ ~currentParams'.positions.isNull) =>
       /\ Len(currentParams'.positions.arr) = Len(currentParams.positions.arr)
       /\ Len(currentParams'.velocities.arr)
            = Len(currentParams.velocities.arr)
       /\ Len(currentParams'.velocities.arr)
            = Len(currentParams'.positions.arr)]_vars

\* C11 witness: two updates have changed the values of the arrays set by
\* the first frame, one of them a rewind, and the lengths are the same
C11_Witness ==
  /\ frames = 3
  /\ calls = calledUpdate
  /\ currentParams.timeDirection = Num(-1)
  /\ ~currentParams.paused
  /\ currentParams.positions.arr # FirstFrameParams.positions.arr
  /\ currentParams.velocities.arr # FirstFrameParams.velocities.arr
  /\ Len(currentParams.positions.arr) = Len(FirstFrameParams.positions.arr)
  /\ Len(currentParams.velocities.arr) = Len(FirstFrameParams.velocities.arr)

\* C12: timeDirection is always 1 or -1; a click on a reverse time button
\* flips its sign and nothing else changes it; a second click gives back
\* the direction before the first.
C12_TimeDirectionIsASign ==
  [][/\ currentParams.timeDirection \in { Num(1), Num(-1) }
     /\ currentParams'.timeDirection \in { Num(1), Num(-1) }
     /\ ClickReverseTime =>
          currentParams'.timeDirection = Neg(currentParams.timeDirection)
     /\ currentParams'.timeDirection # currentParams.timeDirection =>
          ClickReverseTime
     /\ didClickReverseTime(didClickReverseTime(currentParams)).timeDirection
          = currentParams.timeDirection]_vars

\* C12 witness: time runs backwards after a click on the first reverse
\* button, which is hidden now, and a frame has used the direction
C12_Witness ==
  /\ currentParams.timeDirection = Num(-1)
  /\ "reverseTimeButton" \in hidden
  /\ "reverseTime2Button" \notin hidden
  /\ frames = 2
  /\ calls = calledUpdate
  /\ currentParams.positions =
       integrate(initialParams, FirstFrameParams,
                 Neg(currentParams.timeStep)).positions

\* C13: a frame leaves in currentParams what setInitial or update put
\* there, drawScene changes none of it; the buffer of the GPU holds a copy
\* of the positions in single precision, it is a value of its own that no
\* later handler changes; drawArrays gets positions.length / 3 bodies.
C13_DrawSceneOnlyReads ==
  [][/\ FrameStep =>
          /\ currentParams' = onNextFrame(initialParams, currentParams).current
          /\ drawData'.positionBuffer =
               Float32Array(currentParams'.positions.arr)
          /\ Len(drawData'.positionBuffer) = Len(currentParams'.positions.arr)
          /\ 3 * drawData'.numberOfBodies = Len(currentParams'.positions.arr)
          /\ drawData'.colorBuffer = drawData.colorBuffer
     /\ ~FrameStep =>
          /\ drawData'.positionBuffer = drawData.positionBuffer
          /\ drawData'.numberOfBodies = drawData.numberOfBodies]_vars

\* C13 witness: a frame has drawn bodies that an update had moved; the
\* buffer holds their positions in single precision, which are not the
\* numbers of the array
C13_Witness ==
  /\ frames = 2
  /\ calls = calledUpdate
  /\ ~currentParams.paused
  /\ currentParams.positions # FirstFrameParams.positions
  /\ drawData.positionBuffer = Float32Array(currentParams.positions.arr)
  /\ drawData.positionBuffer # currentParams.positions.arr
  /\ drawData.numberOfBodies = 2

\* what galaxyStarsPositionsAndVelocities returns for galaxy galaxyNumber
\* of the configuration c
StarsReturned(c, galaxyNumber) ==
  galaxyStarsPositionsAndVelocities(
    galaxyArgs(c, corePositions(c), coreVelocities(c), galaxyNumber))

\* C14 (as claimed): for a galaxy of n >= 1 rings
\* galaxyStarsPositionsAndVelocities returns the positions of
\* numberOfStarsInAllRingsOneGalaxy(n) stars and as many velocities.
C14_OneGalaxyHoldsAllStars ==
  result.status = "returned" =>
    \A g \in 0 .. 1 :
      args.numberOfRings[g + 1] >= 1 =>
        /\ Len(StarsReturned(args, g).positions) =
             3 * numberOfStarsInAllRingsOneGalaxy(args.numberOfRings[g + 1])
        /\ Len(StarsReturned(args, g).velocities) =
             3 * numberOfStarsInAllRingsOneGalaxy(args.numberOfRings[g + 1])

\* ------------------------------------------------------------------------
\* Properties of the star counts
\* ------------------------------------------------------------------------

\* the sum of numberOfStarsInOneRing(k) for k = 1 .. n, from the last ring
RECURSIVE SumOfRings(_)
SumOfRings(n) ==
  IF n <= 0 THEN 0 ELSE SumOfRings(n - 1) + numberOfStarsInOneRing(n)

\* C15: numberOfStarsInOneRing(k) is 12 + 6 (k - 1) for k >= 1, and
\* numberOfStarsInAllRingsOneGalaxy(n) is the sum of the rings 1 .. n for
\* n >= 0, which is 3 n n + 9 n: 120 for n = 5.
C15_StarCounts ==
  /\ counts.oneRing # << >> =>
       /\ counts.oneRing[1] = 12 + 6 * (counts.ringNumber - 1)
       /\ counts.oneRing[1] =
            SumOfRings(counts.ringNumber) - SumOfRings(counts.ringNumber - 1)
  /\ counts.allRings # << >> =>
       /\ counts.allRings[1] = SumOfRings(counts.numberOfRings)
       /\ counts.allRings[1] =
            3 * counts.numberOfRings * counts.numberOfRings
              + 9 * counts.numberOfRings
       /\ counts.numberOfRings = 5 => counts.allRings[1] = 120
       /\ counts.numberOfRings = 0 => counts.allRings[1] = 0

\* C15 witness: the two calls of the unit tests have returned 24 stars for
\* ring 3 and 120 stars for 5 rings
C15_Witness ==
  /\ counts.ringNumber = 3
  /\ counts.oneRing = << 24 >>
  /\ counts.numberOfRings = 5
  /\ counts.allRings = << 120 >>

\* ------------------------------------------------------------------------
\* Properties of the time step
\* ------------------------------------------------------------------------

\* C16 (as claimed): the time step is 60 divided by the refresh rate
\* rounded to the nearest multiple of 10, which is 1 for 60 FPS; it is
\* positive and finite for every positive refresh rate, and it stays what
\* main computed.
C16_TimeStepIsPositiveAndFixed ==
  /\ currentParams.timeStep =
       Div(Num(60),
           Mul(MathRound(Div(currentParams.screenRefreshRateFPS, Num(10))),
               Num(10)))
  /\ currentParams.screenRefreshRateFPS = Num(60) =>
       currentParams.timeStep = Num(1)
  /\ Sign(currentParams.screenRefreshRateFPS) > 0 =>
       (IsFinite(currentParams.timeStep) /\ Sign(currentParams.timeStep) > 0)

\* ------------------------------------------------------------------------
\* Properties of the button handlers
\* ------------------------------------------------------------------------

\* the step changes no field of currentParams outside of fields
ChangesOnly(fields) ==
  \A f \in (DOMAIN currentParams) \ fields :
    currentParams'[f] = currentParams[f]

BodyList == { "positions", "velocities", "accelerations" }

\* C17: pause and resume change only paused, reverse time only
\* timeDirection, fast forward only fastForwardSeconds, the restart button
\* only the three arrays, the restart of main only the three arrays and the
\* camera distance; no other handler changes the arrays.
C17_HandlersChangeTheirOwnField ==
  [][/\ ClickPause =>
          (ChangesOnly({ "paused" }) /\ currentParams'.paused)
     /\ ClickResume =>
          (ChangesOnly({ "paused" }) /\ ~currentParams'.paused)
     /\ ClickReverseTime => ChangesOnly({ "timeDirection" })
     /\ ClickFastForward => ChangesOnly({ "fastForwardSeconds" })
     /\ ClickRestart => ChangesOnly(BodyList)
     /\ Restart => ChangesOnly(BodyList \cup { "cameraDistanceIsNull" })
     /\ (Restart \/ ClickRestart) =>
          /\ currentParams'.positions = Null
          /\ currentParams'.velocities = Null
          /\ currentParams'.accelerations = Null
     /\ (~FrameStep /\ ~Restart /\ ~ClickRestart) =>
          ChangesOnly((DOMAIN currentParams) \ BodyList)
     /\ initialParams' = initialParams]_vars

\* C17 witness: a restart after two frames has forgotten the bodies and
\* kept the pause, the reversed time, the pending rewind and the time step
C17_Witness ==
  /\ frames = 2
  /\ currentParams.positions = Null
  /\ currentParams.velocities = Null
  /\ currentParams.accelerations = Null
  /\ currentParams.cameraDistanceIsNull
  /\ currentParams.paused
  /\ currentParams.timeDirection = Num(-1)
  /\ currentParams.fastForwardSeconds = Num(-5)
  /\ currentParams.timeStep = Fin(3, 7)
  /\ drawData.numberOfBodies = 2

\* the seconds of the fast forward and of the rewind button
ClickedSeconds == { Num(5), Num(-5) }

Dragging == rotateState.moving /\ ~rotateState.lastPosition.isNull

\* C19: worldMatrix changes only by a move event during a drag, and
\* lastPosition only by such a move or by startMoving; a move event when
\* moving is false or lastPosition is null leaves the state as it is;
\* stopMoving changes only the moving flag.
C19_RotationOnlyWhileDragging ==
  [][/\ rotateState'.worldMatrix # rotateState.worldMatrix =>
          (Move /\ Dragging)
     /\ rotateState'.lastPosition # rotateState.lastPosition =>
          (StartMoving \/ (Move /\ Dragging))
     /\ (Move /\ ~Dragging) => rotateState' = rotateState
     /\ \A e \in Pointers :
          (~rotateState.moving \/ rotateState.lastPosition.isNull) =>
            move(rotateState, e) = rotateState
     /\ StopMoving =>
          /\ ~rotateState'.moving
          /\ rotateState'.worldMatrix = rotateState.worldMatrix
          /\ rotateState'.lastPosition = rotateState.lastPosition
     /\ StartMoving =>
          /\ rotateState'.moving
          /\ rotateState'.worldMatrix = rotateState.worldMatrix]_vars

\* C19 witness: a drag from (0, 0) to (30, 40) has rotated the scene about
\* both axes and has been stopped
C19_Witness ==
  /\ ~rotateState.moving
  /\ rotateState.lastPosition = Position([pageX |-> 30, pageY |-> 40])
  /\ rotateState.worldMatrix =
       << yRotation(Fin(3, 10)), xRotation(Fin(2, 5)) >>

====
